---- MODULE Spec2Model ----
(***************************************************************************)
(* A model of transient_crossmatching.py: the command-line entry, main     *)
(* (batch and single-object mode), tns_query with its retry loop, the      *)
(* metadata loop, the plotting loops, and the geometry functions           *)
(* cov_matrix and mahalanobis_distance.                                    *)
(*                                                                         *)
(* Numbers.  Angles and coordinates are whole degrees.  cos and sin of     *)
(* theta + 90 are kept in fifths (Cos5, Sin5), so the covariance matrix is *)
(* kept multiplied by 25; 1 / cos(dec) is kept as a whole number (Sec).    *)
(* The squared Mahalanobis distance is the exact fraction num / den.       *)
(***************************************************************************)
EXTENDS Integers, Sequences, FiniteSets, TLC

\* ------------------------------------------------------------ bounds
\* The most rows of a catalog file.
MaxFrb == 2
\* The most entries of one search reply.
MaxReply == 2
\* The largest semi-axis drawn for the geometry functions.
MaxAxis == 2
\* The largest right ascension drawn for the geometry functions.
MaxRa == 1

\* ------------------------------------------------- program constants
initial_delay == 10
max_delay == 300
max_retries == 8

\* An optional command-line value: <<>> is Python's None, <<v>> is v.
None == <<>>

Some(v) == <<v>>

Value(opt) == opt[1]

Min(x, y) == IF x <= y THEN x ELSE y

\* ----------------------------------------------------- ordered dicts
\* A Python dict is a sequence of [key, val] records in insertion order.
DictKeys(d) == {d[n].key : n \in 1..Len(d)}

DictGet(d, key) == d[CHOOSE n \in 1..Len(d) : d[n].key = key].val

\* d[key] = val: a new key goes last, an old key keeps its place.
DictSet(d, key, val) ==
    IF key \in DictKeys(d)
    THEN [n \in 1..Len(d) |-> IF d[n].key = key THEN [key |-> key, val |-> val] ELSE d[n]]
    ELSE Append(d, [key |-> key, val |-> val])

\* d.update(other)
RECURSIVE DictUpdate(_, _)
DictUpdate(d, other) ==
    IF other = <<>> THEN d
    ELSE DictUpdate(DictSet(d, Head(other).key, Head(other).val), Tail(other))

\* ------------------------------------------------ the remote registry
\* The objects the registry knows: what a search reply says of each
\* (objid, objname, prefix) and what its metadata says (radeg, decdeg).
TnsObjects ==
    { [objid |-> 1, objname |-> "2024abc", prefix |-> "SN", radeg |-> 10, decdeg |-> 0],
      [objid |-> 2, objname |-> "2024xyz", prefix |-> "AT", radeg |-> 11, decdeg |-> 60],
      [objid |-> 3, objname |-> "20240101A", prefix |-> "FRB", radeg |-> 10, decdeg |-> 0] }

ObjectNamed(objname) == CHOOSE o \in TnsObjects : o.objname = objname

Item(o) == [objid |-> o.objid, objname |-> o.objname, prefix |-> o.prefix]

\* Sequences of distinct elements of S, of length at most n.
DistinctSeqs(S, n) ==
    {s \in UNION {[1..m -> S] : m \in 0..n} :
        \A p, q \in 1..Len(s) : p # q => s[p] # s[q]}

\* The 'reply' lists a search may return.
ReplyLists == DistinctSeqs({Item(o) : o \in TnsObjects}, MaxReply)

\* The bodies of a response that raise_for_status lets through: a JSON
\* text with data.reply a list, with data but no reply, without data, or
\* no JSON at all.
Bodies ==
    {[kind |-> "list", reply |-> r] : r \in ReplyLists}
        \cup {[kind |-> k, reply |-> <<>>] : k \in {"noreply", "nodata", "badjson"}}

NoResponse == [status |-> 0, body |-> [kind |-> "none", reply |-> <<>>]]

\* ------------------------------------------------------- the catalog
\* The rows a catalog file is made of.  FRB_B has a semi-minor axis of 0
\* and theta = -90, FRB_D is not included.
CatalogRows ==
    { [name |-> "FRB_A", ra_frb |-> 10, dec_frb |-> 0, theta |-> -37,
       a_err |-> 2, b_err |-> 1, include |-> "yes"],
      [name |-> "FRB_B", ra_frb |-> 11, dec_frb |-> 60, theta |-> -90,
       a_err |-> 1, b_err |-> 0, include |-> "yes"],
      [name |-> "FRB_C", ra_frb |-> 11, dec_frb |-> 0, theta |-> 0,
       a_err |-> 1, b_err |-> 1, include |-> "yes"],
      [name |-> "FRB_D", ra_frb |-> 10, dec_frb |-> 60, theta |-> 0,
       a_err |-> 2, b_err |-> 2, include |-> "no"] }

\* The catalog files: up to MaxFrb rows, each FRB named once.
Files == DistinctSeqs(CatalogRows, MaxFrb) \ {<<>>}

Frb(row) ==
    [name |-> row.name, ra |-> row.ra_frb, dec |-> row.dec_frb,
     theta |-> row.theta, a |-> row.a_err, b |-> row.b_err]

\* read_final_catalog: the rows with include == 'yes', in file order.
read_final_catalog(f) ==
    LET kept == SelectSeq(f, LAMBDA row : row.include = "yes")
    IN  [n \in 1..Len(kept) |-> Frb(kept[n])]

\* ------------------------------------------------------ the geometry
\* The position angles and the declinations the tables below cover.
Thetas == {-90, -37, 0}
Decs == {-60, 0, 60, 90}

\* 5 * cos(radians(theta + 90)) and 5 * sin(radians(theta + 90)), to the
\* nearest whole number: the angles 0, 53 and 90 degrees.
Cos5(theta) == CASE theta = -90 -> 5 [] theta = -37 -> 3 [] theta = 0 -> 0

Sin5(theta) == CASE theta = -90 -> 0 [] theta = -37 -> 4 [] theta = 0 -> 5

\* 1 / cos(radians(dec)).  At dec = 90 the double cos(pi / 2) is 6.1e-17,
\* not 0, so the quotient is a finite, very large number (1.6e16); it is
\* kept here as 1000.
Sec(dec) == CASE dec = 0 -> 1 [] dec = 60 -> 2 [] dec = -60 -> 2 [] dec = 90 -> 1000

\* cov_matrix(a, b, theta) = R @ D @ R.T with R the rotation by theta + 90
\* and D = diag(a^2, b^2), times 25.  'rounded' says that cos and sin were
\* rounded doubles (every angle but theta + 90 = 0, where they are exactly
\* 1 and 0), so that the entries are not exact.
cov_matrix(a, b, theta) ==
    LET c == Cos5(theta)
        s == Sin5(theta)
    IN  [xx |-> c * (a * a) * c + s * (b * b) * s,
         xy |-> c * (a * a) * s - s * (b * b) * c,
         yy |-> s * (a * a) * s + c * (b * b) * c,
         rounded |-> theta + 90 # 0 /\ (a # 0 \/ b # 0)]

\* The determinant of 25 * cov: 625 a^2 b^2.
Det(cov) == cov.xx * cov.yy - cov.xy * cov.xy

\* What np.linalg.inv(cov_matrix) does.  A matrix that is not singular is
\* inverted.  An exactly singular matrix raises LinAlgError; a singular
\* matrix whose entries were rounded may also leave a tiny pivot, and is
\* then inverted to meaningless numbers without an error.
InvOutcomes(cov) ==
    IF Det(cov) # 0 THEN {"ok"}
    ELSE IF cov.rounded THEN {"LinAlgError", "garbage"}
    ELSE {"LinAlgError"}

\* mahalanobis_distance with the correction added to the difference in
\* right ascension instead of multiplying it.
mahalanobis_additive(point, frbcenter, cov) ==
    LET diff == <<point[1] - frbcenter[1], point[2] - frbcenter[2]>>
        correction == diff[1] + Sec(point[2])
        dc == <<correction, diff[2]>>
    IN  [num |-> dc[1] * dc[1] * cov.yy - 2 * dc[1] * dc[2] * cov.xy
                    + dc[2] * dc[2] * cov.xx,
         den |-> Det(cov) \div 25]

\* mahalanobis_distance(point, frbcenter, cov_matrix), squared, for a
\* matrix that was inverted: diff_corrected.T @ inv @ diff_corrected with
\* inv = 25 * adj(25 cov) / det(25 cov).  md is the square root of
\* num / den, and is 0 exactly when num is 0.
mahalanobis_distance(point, frbcenter, cov) ==
    LET diff == <<point[1] - frbcenter[1], point[2] - frbcenter[2]>>
        correction == diff[1] * Sec(point[2])
        dc == <<correction, diff[2]>>
    IN  [num |-> dc[1] * dc[1] * cov.yy - 2 * dc[1] * dc[2] * cov.xy
                    + dc[2] * dc[2] * cov.xx,
         den |-> Det(cov) \div 25]

\* The distance gauss_contour annotates when the inversion gave
\* meaningless numbers.
Garbage == [num |-> -1, den |-> 0]

\* ---------------------------------------------------------- the state
VARIABLES
    environ,        \* whether TNS_BOT_ID, TNS_BOT_NAME and TNS_API_KEY are set
    args,           \* the parsed command line
    file,           \* the rows of the catalog file (batch mode)
    pc,             \* where the program is
    printed,        \* the error message of the entry, "" when none
    error,          \* the exception that ended the run and where it was raised
    frbs,           \* main: name, ra, dec, theta, a, b, zipped
    i,              \* main: the FRB of the query loop
    attempt,        \* tns_query: attempt
    delay,          \* tns_query: delay
    requests,       \* tns_query: the calls of search made by this call
    sleeps,         \* tns_query: the time.sleep calls made by this call
    response,       \* tns_query: response
    results_dict,   \* tns_query: results_dict
    trans_results,  \* main: trans_results
    trans_metadata, \* main: trans_metadata
    returned,       \* per finished call of tns_query: its last response, the keys it returned
    mi,             \* main: the place of the metadata loop in trans_results
    k,              \* main: the FRB of the plotting loop
    j,              \* main: the place of the inner plotting loop in trans_metadata
    plots,          \* the calls of gauss_contour that returned
    did,            \* the kinds of work done so far
    gpc,            \* geometry check: where it is
    gin,            \* geometry check: a, b, theta, center, point
    gcov,           \* geometry check: the covariance matrix
    gmd             \* geometry check: the distance

queryLocals == <<attempt, delay, requests, sleeps, response, results_dict>>

mainVars ==
    <<environ, args, file, pc, printed, error, frbs, i, queryLocals,
      trans_results, trans_metadata, returned, mi, k, j, plots, did>>

geomVars == <<gpc, gin, gcov, gmd>>

\* The (FRB, object id) pairs the calls of tns_query returned.
Found == UNION {{<<n, key>> : key \in returned[n].keys} : n \in 1..Len(returned)}

vars == <<mainVars, geomVars>>

NoError == [exc |-> "none", at |-> "none"]

NoCov == [xx |-> 0, xy |-> 0, yy |-> 0, rounded |-> FALSE]

NoInput == [a |-> 0, b |-> 0, theta |-> 0, center |-> <<0, 0>>, point |-> <<0, 0>>]

NoDistance == [num |-> 0, den |-> 0]

\* ------------------------------------------------------ command line
Params == {"name", "ra", "dec", "theta", "a", "b"}

\* --single with the values of one FRB, those in 'missing' left out.
SingleArgs(row, missing) ==
    [single |-> TRUE,
     filename |-> None,
     name |-> IF "name" \in missing THEN None ELSE Some(row.name),
     ra |-> IF "ra" \in missing THEN None ELSE Some(row.ra_frb),
     dec |-> IF "dec" \in missing THEN None ELSE Some(row.dec_frb),
     theta |-> IF "theta" \in missing THEN None ELSE Some(row.theta),
     a |-> IF "a" \in missing THEN None ELSE Some(row.a_err),
     b |-> IF "b" \in missing THEN None ELSE Some(row.b_err)]

BatchArgs ==
    [single |-> FALSE, filename |-> Some("catalog"), name |-> None, ra |-> None,
     dec |-> None, theta |-> None, a |-> None, b |-> None]

\* The locals of a call of tns_query as it enters its loop.
EnterQuery ==
    /\ attempt' = 0
    /\ delay' = initial_delay
    /\ requests' = 0
    /\ sleeps' = <<>>
    /\ response' = NoResponse
    /\ results_dict' = <<>>

GeomIdle ==
    /\ gpc = "off"
    /\ gin = NoInput
    /\ gcov = NoCov
    /\ gmd = NoDistance

MainStart ==
    /\ printed = ""
    /\ error = NoError
    /\ frbs = <<>>
    /\ i = 1
    /\ attempt = 0
    /\ delay = initial_delay
    /\ requests = 0
    /\ sleeps = <<>>
    /\ response = NoResponse
    /\ results_dict = <<>>
    /\ trans_results = <<>>
    /\ trans_metadata = <<>>
    /\ returned = <<>>
    /\ mi = 1
    /\ k = 1
    /\ j = 1
    /\ plots = <<>>
    /\ did = {}

\* The program as it starts: a command line, an environment, a catalog.
Init ==
    /\ environ \in BOOLEAN
    /\ \/ /\ \E row \in {r \in CatalogRows : r.include = "yes"}, missing \in SUBSET Params :
                args = SingleArgs(row, missing)
          /\ file = <<>>
       \/ /\ args = BatchArgs
          /\ file \in Files
    /\ pc = "start"
    /\ MainStart
    /\ GeomIdle

\* An uncaught exception ends the run.
Raise(exc, at) ==
    /\ pc' = "crashed"
    /\ error' = [exc |-> exc, at |-> at]

\* ------------------------------------------------------------ __main__
\* check_tns_api_keywords raises when a key is not in the environment.
KeywordsMissing ==
    /\ pc = "start"
    /\ ~environ
    /\ Raise("Exception", "check_tns_api_keywords")
    /\ UNCHANGED <<environ, args, file, printed, frbs, i, queryLocals, trans_results,
                   trans_metadata, returned, mi, k, j, plots, did, geomVars>>

\* The parameters the entry checks in single-object mode.
MissingParameters(ar) ==
    ar.ra = None \/ ar.dec = None \/ ar.theta = None \/ ar.a = None \/ ar.b = None

\* --single with a parameter missing: the message, then exit(1).
ExitMissing ==
    /\ pc = "start"
    /\ environ
    /\ args.single
    /\ MissingParameters(args)
    /\ printed' = "Error: Missing parameters for single object query."
    /\ pc' = "exit"
    /\ UNCHANGED <<environ, args, file, error, frbs, i, queryLocals, trans_results,
                   trans_metadata, returned, mi, k, j, plots, did, geomVars>>

\* --single: main(single_obj=True) as far as its call of tns_query.
MainSingle ==
    /\ pc = "start"
    /\ environ
    /\ args.single
    /\ ~MissingParameters(args)
    /\ frbs' = << [name |-> IF args.name = None THEN "None" ELSE Value(args.name),
                   ra |-> Value(args.ra), dec |-> Value(args.dec),
                   theta |-> Value(args.theta), a |-> Value(args.a),
                   b |-> Value(args.b)] >>
    /\ i' = 1
    /\ pc' = "query"
    /\ EnterQuery
    /\ UNCHANGED <<environ, args, file, printed, error, trans_results, trans_metadata,
                   returned, mi, k, j, plots, did, geomVars>>

\* Batch mode: main(single_obj=False) reads the catalog and calls
\* tns_query for its first FRB; with no row included its loops are empty.
MainBatch ==
    /\ pc = "start"
    /\ environ
    /\ ~args.single
    /\ frbs' = read_final_catalog(file)
    /\ i' = 1
    /\ pc' = IF Len(frbs') = 0 THEN "meta" ELSE "query"
    /\ EnterQuery
    /\ UNCHANGED <<environ, args, file, printed, error, trans_results, trans_metadata,
                   returned, mi, k, j, plots, did, geomVars>>

\* ----------------------------------------------------------- tns_query
\* The statuses raise_for_status raises on, as far as the model draws them.
ErrorStatuses == {404, 500}

\* attempt < max_retries with the comparison off by one.
retry_allowed_inclusive(n) == n <= max_retries

\* attempt < max_retries
retry_allowed(n) == n < max_retries

\* The backoff without its cap.
next_delay_uncapped(d) == d * 2

\* delay = min(delay * 2, max_delay)
next_delay(d) == Min(d * 2, max_delay)

\* format_to_json with data['reply'] in place of data.get('reply'): a
\* body without 'reply' raises.
format_to_json_strict(body) ==
    CASE body.kind = "list" -> [tag |-> "reply", reply |-> body.reply]
      [] body.kind = "noreply" -> [tag |-> "KeyError", reply |-> <<>>]
      [] body.kind = "badjson" -> [tag |-> "None", reply |-> <<>>]
      [] body.kind = "nodata" -> [tag |-> "AttributeError", reply |-> <<>>]

\* format_to_json(response.text): the reply list; None when 'reply' is
\* absent or the text is no JSON (JSONDecodeError is caught); without
\* 'data', data is None and data.get raises AttributeError, uncaught.
format_to_json(body) ==
    CASE body.kind = "list" -> [tag |-> "reply", reply |-> body.reply]
      [] body.kind = "noreply" -> [tag |-> "None", reply |-> <<>>]
      [] body.kind = "badjson" -> [tag |-> "None", reply |-> <<>>]
      [] body.kind = "nodata" -> [tag |-> "AttributeError", reply |-> <<>>]

\* The prefix test without effect: nothing is skipped.
skip_nothing(item) == FALSE

\* if item['prefix'] == 'FRB': continue
skip_item(item) == item.prefix = "FRB"

\* The loop over the reply: results_dict[obj_id] = {...} for every item
\* that is not skipped.
RECURSIVE add_items(_, _, _)
add_items(d, items, frb_name) ==
    IF items = <<>> THEN d
    ELSE LET item == Head(items)
             entry == [frbname |-> frb_name, objname |-> item.objname,
                       prefix |-> item.prefix, objid |-> item.objid]
         IN  add_items(IF skip_item(item) THEN d ELSE DictSet(d, item.objid, entry),
                       Tail(items), frb_name)

\* What an iteration of the loop leaves alone, whatever the response.
QueryFrame ==
    UNCHANGED <<environ, args, file, printed, frbs, i, trans_results, trans_metadata,
                returned, mi, k, j, plots, geomVars>>

\* A 429 with retries left: sleep, double the delay, count the attempt.
Throttled ==
    /\ pc = "query"
    /\ retry_allowed(attempt)
    /\ response' = [status |-> 429, body |-> NoResponse.body]
    /\ requests' = requests + 1
    /\ sleeps' = Append(sleeps, delay)
    /\ delay' = next_delay(delay)
    /\ attempt' = attempt + 1
    /\ did' = did \cup {"search"}
    /\ UNCHANGED <<pc, error, results_dict>>
    /\ QueryFrame

\* A 429 with no retry left: break, return results_dict.
GiveUp ==
    /\ pc = "query"
    /\ ~retry_allowed(attempt)
    /\ response' = [status |-> 429, body |-> NoResponse.body]
    /\ requests' = requests + 1
    /\ did' = did \cup {"search"}
    /\ pc' = "ret"
    /\ UNCHANGED <<error, attempt, delay, sleeps, results_dict>>
    /\ QueryFrame

\* Another error status: response.raise_for_status() raises HTTPError.
HttpError ==
    /\ pc = "query"
    /\ \E st \in ErrorStatuses : response' = [status |-> st, body |-> NoResponse.body]
    /\ requests' = requests + 1
    /\ did' = did \cup {"search"}
    /\ Raise("HTTPError", "tns_query")
    /\ UNCHANGED <<attempt, delay, sleeps, results_dict>>
    /\ QueryFrame

\* requests.post raises: search returns the list [None, message], and
\* response.status_code raises AttributeError.
NetworkError ==
    /\ pc = "query"
    /\ response' = [status |-> -1, body |-> NoResponse.body]
    /\ requests' = requests + 1
    /\ did' = did \cup {"search"}
    /\ Raise("AttributeError", "tns_query")
    /\ UNCHANGED <<attempt, delay, sleeps, results_dict>>
    /\ QueryFrame

\* A response that raise_for_status lets through: the body is parsed and
\* a reply that is not empty fills results_dict; break, return.
Reply ==
    /\ pc = "query"
    /\ \E body \in Bodies :
          LET result == format_to_json(body)
          IN  /\ response' = [status |-> 200, body |-> body]
              /\ IF result.tag \in {"reply", "None"}
                 THEN /\ pc' = "ret"
                      /\ results_dict' = add_items(results_dict, result.reply, frbs[i].name)
                      /\ UNCHANGED error
                 ELSE /\ Raise(result.tag, "tns_query")
                      /\ UNCHANGED results_dict
    /\ requests' = requests + 1
    /\ did' = did \cup {"search"}
    /\ UNCHANGED <<attempt, delay, sleeps>>
    /\ QueryFrame

\* main: trans_results.update(frb_results), then the next FRB of the
\* catalog, or the metadata loop after the last one.
Update ==
    /\ pc = "ret"
    /\ trans_results' = DictUpdate(trans_results, results_dict)
    /\ returned' = Append(returned, [response |-> response,
                                     keys |-> DictKeys(results_dict)])
    /\ IF i < Len(frbs)
       THEN /\ i' = i + 1
            /\ pc' = "query"
       ELSE /\ i' = i
            /\ pc' = "meta"
    /\ EnterQuery
    /\ UNCHANGED <<environ, args, file, printed, error, frbs, trans_metadata, mi, k, j,
                   plots, did, geomVars>>

\* ------------------------------------------------- main: the metadata
\* What get_metadata may do: a 200 with the object's JSON, another status
\* (it prints and returns None), or requests.post raising.
MetaOutcomes == {"ok", "status", "raise"}

\* formatted_data of a fetched object.
formatted_data(entry) ==
    LET o == ObjectNamed(entry.objname)
    IN  [frbname |-> entry.frbname, objname |-> o.objname, prefix |-> o.prefix,
         radeg |-> o.radeg, decdeg |-> o.decdeg]

\* One round of 'for obj_id, data in trans_results.items()'.
MetaFetch ==
    /\ pc = "meta"
    /\ mi <= Len(trans_results)
    /\ did' = did \cup {"get_metadata"}
    /\ \E outcome \in MetaOutcomes :
          CASE outcome = "ok" ->
                  /\ trans_metadata' = DictSet(trans_metadata, trans_results[mi].key,
                                               formatted_data(trans_results[mi].val))
                  /\ mi' = mi + 1
                  /\ UNCHANGED <<pc, error>>
            [] outcome = "status" ->
                  /\ mi' = mi + 1
                  /\ UNCHANGED <<pc, error, trans_metadata>>
            [] outcome = "raise" ->
                  /\ Raise("ConnectionError", "get_metadata")
                  /\ UNCHANGED <<mi, trans_metadata>>
    /\ UNCHANGED <<environ, args, file, printed, frbs, i, queryLocals, trans_results,
                   returned, k, j, plots, geomVars>>

\* The metadata loop is over: on to the plots.
MetaDone ==
    /\ pc = "meta"
    /\ mi > Len(trans_results)
    /\ pc' = "plot"
    /\ k' = 1
    /\ j' = 1
    /\ UNCHANGED <<environ, args, file, printed, error, frbs, i, queryLocals,
                   trans_results, trans_metadata, returned, mi, plots, did, geomVars>>

\* ---------------------------------------------------- main: the plots
\* if data['frbname'] == n, always true: every transient against every FRB.
matches_any(data, n) == TRUE

\* if data['frbname'] == n
matches(data, n) == data.frbname = n

\* The record of one call of gauss_contour that returned.
Plot(row, frb, entry, cov, md) ==
    [row |-> row, frb |-> frb.name, obj |-> entry.key, objname |-> entry.val.objname,
     cov |-> cov, center |-> <<frb.ra, frb.dec>>,
     point |-> <<entry.val.radeg, entry.val.decdeg>>, md |-> md]

\* cov_matrix and gauss_contour for one FRB and one fetched transient:
\* the call returns and is recorded, or the inversion raises.
Score(row, frb, entry) ==
    LET cov == cov_matrix(frb.a, frb.b, frb.theta)
        point == <<entry.val.radeg, entry.val.decdeg>>
        center == <<frb.ra, frb.dec>>
    IN  /\ did' = did \cup {"cov_matrix", "gauss_contour"}
        /\ \E outcome \in InvOutcomes(cov) :
              CASE outcome = "ok" ->
                      /\ plots' = Append(plots, Plot(row, frb, entry, cov,
                                            mahalanobis_distance(point, center, cov)))
                      /\ error' = error
                [] outcome = "garbage" ->
                      /\ plots' = Append(plots, Plot(row, frb, entry, cov, Garbage))
                      /\ error' = error
                [] outcome = "LinAlgError" ->
                      /\ plots' = plots
                      /\ error' = [exc |-> "LinAlgError", at |-> "mahalanobis_distance"]

\* Single-object mode: the first entry of trans_metadata, then break.
PlotSingle ==
    /\ pc = "plot"
    /\ args.single
    /\ Len(trans_metadata) > 0
    /\ Score(1, frbs[1], trans_metadata[1])
    /\ pc' = IF error' = NoError THEN "done" ELSE "crashed"
    /\ UNCHANGED <<environ, args, file, printed, frbs, i, queryLocals, trans_results,
                   trans_metadata, returned, mi, k, j, geomVars>>

\* Batch mode: one round of the inner loop, for FRB k and entry j of
\* trans_metadata.
PlotBatch ==
    /\ pc = "plot"
    /\ ~args.single
    /\ k <= Len(frbs)
    /\ j <= Len(trans_metadata)
    /\ IF matches(trans_metadata[j].val, frbs[k].name)
       THEN Score(k, frbs[k], trans_metadata[j])
       ELSE UNCHANGED <<plots, error, did>>
    /\ IF error' # NoError
       THEN /\ pc' = "crashed"
            /\ UNCHANGED <<k, j>>
       ELSE /\ pc' = pc
            /\ IF j < Len(trans_metadata)
               THEN /\ j' = j + 1
                    /\ k' = k
               ELSE /\ j' = 1
                    /\ k' = k + 1
    /\ UNCHANGED <<environ, args, file, printed, frbs, i, queryLocals, trans_results,
                   trans_metadata, returned, mi, geomVars>>

\* The loops are over (or had nothing to go through): main returns.
PlotDone ==
    /\ pc = "plot"
    /\ \/ Len(trans_metadata) = 0
       \/ ~args.single /\ k > Len(frbs)
    /\ pc' = "done"
    /\ UNCHANGED <<environ, args, file, printed, error, frbs, i, queryLocals,
                   trans_results, trans_metadata, returned, mi, k, j, plots, did, geomVars>>

Next ==
    \/ KeywordsMissing
    \/ ExitMissing
    \/ MainSingle
    \/ MainBatch
    \/ Throttled
    \/ GiveUp
    \/ HttpError
    \/ NetworkError
    \/ Reply
    \/ Update
    \/ MetaFetch
    \/ MetaDone
    \/ PlotSingle
    \/ PlotBatch
    \/ PlotDone

Spec == Init /\ [][Next]_vars

\* ------------------------------------------- the geometry on its own
\* cov_matrix and mahalanobis_distance applied to drawn inputs.
MainIdle ==
    /\ environ = TRUE
    /\ args = BatchArgs
    /\ file = <<>>
    /\ pc = "off"
    /\ MainStart

GeomInit ==
    /\ MainIdle
    /\ gpc = "in"
    /\ \E a \in 0..MaxAxis, b \in 0..MaxAxis, theta \in Thetas,
          cra \in 0..MaxRa, cdec \in Decs, pra \in 0..MaxRa, pdec \in Decs :
            gin = [a |-> a, b |-> b, theta |-> theta, center |-> <<cra, cdec>>,
                   point |-> <<pra, pdec>>]
    /\ gcov = NoCov
    /\ gmd = NoDistance

GeomCov ==
    /\ gpc = "in"
    /\ gcov' = cov_matrix(gin.a, gin.b, gin.theta)
    /\ gpc' = "cov"
    /\ UNCHANGED <<gin, gmd, mainVars>>

GeomDistance ==
    /\ gpc = "cov"
    /\ \E outcome \in InvOutcomes(gcov) :
          CASE outcome = "ok" ->
                  /\ gmd' = mahalanobis_distance(gin.point, gin.center, gcov)
                  /\ gpc' = "md"
            [] outcome = "garbage" ->
                  /\ gmd' = Garbage
                  /\ gpc' = "md"
            [] outcome = "LinAlgError" ->
                  /\ gmd' = gmd
                  /\ gpc' = "LinAlgError"
    /\ UNCHANGED <<gin, gcov, mainVars>>

GeomNext == GeomCov \/ GeomDistance

GeomSpec == GeomInit /\ [][GeomNext]_vars

\* =========================================================== claims
\* Whether a plot of FRB r and object o was made.
Plotted(r, o) == \E p \in 1..Len(plots) : plots[p].row = r /\ plots[p].obj = o

Singular(frb) == Det(cov_matrix(frb.a, frb.b, frb.theta)) = 0

\* C1 (as claimed): in batch mode, when the run ends normally or with the
\* LinAlgError of an FRB whose covariance matrix is singular, every FRB
\* with a regular matrix has a plot for each fetched transient recorded
\* under its name.
C1_SingularFailureConfined ==
    (~args.single /\ (pc = "done" \/ (pc = "crashed" /\ error.exc = "LinAlgError")))
        => \A r \in 1..Len(frbs), m \in 1..Len(trans_metadata) :
              (~Singular(frbs[r]) /\ trans_metadata[m].val.frbname = frbs[r].name)
                  => Plotted(r, trans_metadata[m].key)

\* C2 (as claimed): no failure of the lookup (an error status, or an
\* exception raised while sending the request) ends the run.
C2_LookupFailureIsNoResult ==
    ~(pc = "crashed" /\ error.at = "tns_query"
        /\ response.status \in ErrorStatuses \cup {-1})

\* C3 (as claimed): a call of tns_query sends at most 8 search requests,
\* and after 429 responses only it has sent 8 and returns an empty result.
C3_AtMostEightRequests ==
    /\ requests <= 8
    /\ (pc = "ret" /\ response.status = 429) => (requests = 8 /\ results_dict = <<>>)

\* C3 (amended): a call of tns_query sends at most 9 search requests (the
\* first and max_retries retries); after 429 responses only it has sent 9
\* and returns an empty result; and it terminates, since every round of
\* the loop that does not leave it raises attempt, which never passes
\* max_retries.
C3_AtMostNineRequests ==
    /\ [](/\ requests <= max_retries + 1
          /\ attempt <= max_retries
          /\ (pc = "ret" /\ response.status = 429)
                => (requests = max_retries + 1 /\ results_dict = <<>>))
    /\ [][(pc = "query" /\ pc' = "query" /\ i' = i)
            => (attempt' = attempt + 1 /\ requests' = requests + 1)]_vars

C3_Witness ==
    /\ pc = "ret"
    /\ response.status = 429
    /\ requests = 9
    /\ Len(sleeps) = 8
    /\ results_dict = <<>>

\* C4 (as claimed): in single-object mode with ra, dec, theta, a, b or the
\* name missing, the program does no lookup, no fetch and no computation;
\* it ends by printing the error and exiting, never by main returning.
C4_MissingParameterStops ==
    (args.single /\ \E p \in Params : args[p] = None)
        => /\ did = {}
           /\ pc # "done"
           /\ pc = "exit" => printed # ""
           /\ pc = "crashed" => error.at = "check_tns_api_keywords"

\* A reply with no candidate: 'reply' absent, or an empty list.
EmptyReply(resp) ==
    /\ resp.status = 200
    /\ \/ resp.body.kind = "noreply"
       \/ resp.body.kind = "list" /\ resp.body.reply = <<>>

\* C5: an FRB whose lookup returned no candidate has no fetched entry and
\* no plot; the round of tns_query that gets an empty or absent reply
\* raises nothing and returns an empty result; and main then leaves
\* trans_results as it was and goes on to the lookup of the next FRB (to
\* the metadata loop after the last one).
C5_EmptyLookupSkipped ==
    /\ [](\A n \in 1..Len(returned) :
            returned[n].keys = {}
                => /\ \A m \in 1..Len(trans_metadata) :
                         trans_metadata[m].val.frbname # frbs[n].name
                   /\ \A p \in 1..Len(plots) : plots[p].row # n)
    /\ [][(pc = "query" /\ requests' = requests + 1 /\ EmptyReply(response'))
            => (pc' = "ret" /\ error' = NoError /\ results_dict' = <<>>)]_vars
    /\ [][(pc = "ret" /\ EmptyReply(response))
            => /\ trans_results' = trans_results
               /\ error' = NoError
               /\ IF i < Len(frbs) THEN pc' = "query" /\ i' = i + 1 ELSE pc' = "meta"]_vars

\* An FRB got an absent reply, and a later FRB of the batch was plotted.
C5_Witness ==
    /\ pc = "done"
    /\ ~args.single
    /\ \E n \in 1..Len(returned) :
          /\ returned[n].response.status = 200
          /\ returned[n].response.body.kind = "noreply"
          /\ \E p \in 1..Len(plots) : plots[p].row > n

\* C6: no entry of results_dict, trans_results or trans_metadata and no
\* plot is of an object with prefix 'FRB'; and when tns_query returns after
\* a reply list, results_dict holds exactly the entries of the list with
\* another prefix, each under its object id with its own name and prefix.
C6_SelfMatchesFiltered ==
    /\ \A n \in 1..Len(results_dict) : results_dict[n].val.prefix # "FRB"
    /\ \A n \in 1..Len(trans_results) : trans_results[n].val.prefix # "FRB"
    /\ \A n \in 1..Len(trans_metadata) : trans_metadata[n].val.prefix # "FRB"
    /\ \A p \in 1..Len(plots) : ObjectNamed(plots[p].objname).prefix # "FRB"
    /\ (pc = "ret" /\ response.status = 200 /\ response.body.kind = "list")
          => LET reply == response.body.reply
             IN  /\ DictKeys(results_dict)
                      = {reply[n].objid : n \in {m \in 1..Len(reply) : reply[m].prefix # "FRB"}}
                 /\ \A n \in 1..Len(reply) :
                       reply[n].prefix # "FRB"
                           => DictGet(results_dict, reply[n].objid)
                                = [frbname |-> frbs[i].name, objname |-> reply[n].objname,
                                   prefix |-> reply[n].prefix, objid |-> reply[n].objid]

\* tns_query returned after a reply with a self-match and another entry.
C6_Witness ==
    /\ pc = "ret"
    /\ response.body.kind = "list"
    /\ \E n, m \in 1..Len(response.body.reply) :
          /\ response.body.reply[n].prefix = "FRB"
          /\ response.body.reply[m].prefix # "FRB"
    /\ Len(results_dict) = 1

\* C7: for a covariance matrix that is not singular, a point equal to the
\* center is at distance 0, whatever the declination.
C7_CenterAtDistanceZero ==
    (gpc = "md" /\ gin.point = gin.center /\ Det(gcov) # 0)
        => (gmd.num = 0 /\ gmd.den # 0)

\* The distance of the center itself was computed at the pole.
C7_Witness ==
    /\ gpc = "md"
    /\ gin.point = gin.center
    /\ gin.center[2] = 90
    /\ gin.theta = -37
    /\ Det(gcov) # 0
    /\ gmd.num = 0

\* The waits of a call of tns_query that is throttled throughout.
ExpectedWaits == <<10, 20, 40, 80, 160, 300, 300, 300>>

\* C8: the waits are 10, 20, 40, 80, 160, 300, 300, 300 as far as they
\* go: each the double of the one before capped at 300, never decreasing;
\* every response but the last of the call was followed by a wait and the
\* last is not; and a wait follows a 429 only, and never the response to
\* the last allowed request.
C8_BackoffWaits ==
    /\ [](/\ Len(sleeps) <= Len(ExpectedWaits)
          /\ \A n \in 1..Len(sleeps) :
                /\ sleeps[n] = ExpectedWaits[n]
                /\ sleeps[n] <= 300
                /\ n > 1 => (sleeps[n] >= sleeps[n - 1]
                             /\ sleeps[n] = Min(2 * sleeps[n - 1], 300))
          /\ Len(sleeps) > 0 => sleeps[1] = 10
          /\ pc = "query" => Len(sleeps) = requests
          /\ (pc # "query" /\ requests > 0) => Len(sleeps) = requests - 1)
    /\ [][sleeps' # sleeps /\ sleeps' # <<>>
            => (response'.status = 429 /\ requests' <= max_retries)]_vars

\* All eight waits were made, and the ninth response was a 429 too.
C8_Witness ==
    /\ pc = "ret"
    /\ response.status = 429
    /\ sleeps = ExpectedWaits

\* The place (r, m) of the plotting loops comes before the place (r2, m2).
Before(r, m, r2, m2) == r < r2 \/ (r = r2 /\ m < m2)

\* The place of a key in trans_metadata.
MetaIndex(key) == CHOOSE m \in 1..Len(trans_metadata) : trans_metadata[m].key = key

\* The (FRB, entry) pairs the loops of batch mode have gone past whose
\* entry is recorded under the FRB's name.
PairsDone ==
    {q \in (1..Len(frbs)) \X (1..Len(trans_metadata)) :
        /\ trans_metadata[q[2]].val.frbname = frbs[q[1]].name
        /\ Before(q[1], q[2], k, j)}

\* A plot that used the ellipse and the center of its own FRB and the
\* position of its own transient.
OwnParameters(plot) ==
    LET frb == frbs[plot.row]
        data == DictGet(trans_metadata, plot.obj)
    IN  /\ plot.frb = frb.name
        /\ plot.cov = cov_matrix(frb.a, frb.b, frb.theta)
        /\ plot.center = <<frb.ra, frb.dec>>
        /\ plot.point = <<data.radeg, data.decdeg>>
        /\ plot.objname = data.objname

\* C9: in single-object mode there is at most one plot, of the first
\* entry of trans_metadata, and main is done after it; in batch mode the
\* plots are, in order, those of every (FRB, entry) pair the loops have
\* gone past whose entry is recorded under the FRB's name (every such pair
\* when main is done), each made with the FRB's own a, b, theta, ra, dec.
C9_PlotsPerMode ==
    /\ args.single =>
          /\ Len(plots) <= 1
          /\ \A p \in 1..Len(plots) :
                plots[p].row = 1 /\ plots[p].obj = trans_metadata[1].key
                    /\ OwnParameters(plots[p]) /\ pc = "done"
          /\ (pc = "done" /\ Len(trans_metadata) > 0) => Len(plots) = 1
    /\ (~args.single /\ pc \in {"plot", "done", "crashed"}) =>
          /\ Len(plots) = Cardinality(PairsDone)
          /\ \A q \in PairsDone : Plotted(q[1], trans_metadata[q[2]].key)
          /\ \A p \in 1..Len(plots) :
                /\ <<plots[p].row, MetaIndex(plots[p].obj)>> \in PairsDone
                /\ OwnParameters(plots[p])
          /\ \A p, q \in 1..Len(plots) :
                p < q => Before(plots[p].row, MetaIndex(plots[p].obj),
                                plots[q].row, MetaIndex(plots[q].obj))
          /\ pc = "done" =>
                \A r \in 1..Len(frbs), m \in 1..Len(trans_metadata) :
                    trans_metadata[m].val.frbname = frbs[r].name
                        => Plotted(r, trans_metadata[m].key)

\* Batch mode is done with two transients plotted against one FRB.
C9_Witness ==
    /\ pc = "done"
    /\ ~args.single
    /\ \E p, q \in 1..Len(plots) :
          plots[p].row = plots[q].row /\ plots[p].obj # plots[q].obj

\* C10 (as claimed): when batch mode is done, every (FRB, transient) pair
\* a lookup returned whose metadata was fetched has its plot.
C10_NoPairLost ==
    (pc = "done" /\ ~args.single)
        => \A q \in Found : q[2] \in DictKeys(trans_metadata) => Plotted(q[1], q[2])

====
